---- MODULE Spec2Model ----
(***************************************************************************)
(* Sporadic-server refill queue of a scheduling context (seL4 MCS).        *)
(* Model of src/unnamed/part_000 (the refill algorithms) and of            *)
(* src/include/kernel/sporadic.h (the accessors and queries).              *)
(***************************************************************************)
EXTENDS Integers, Naturals, Sequences, FiniteSets

(* ------------------------------------------------------------------ *)
(* Bounds of the model                                                  *)
(* ------------------------------------------------------------------ *)
MaxTime == 6
MaxBudget == 5
MaxPeriod == 6
MaxRefills == 3
TicksModulus == 4096

MaxUsage == MaxBudget + 1

MaxRefillTime == MaxTime + MaxPeriod

(* ------------------------------------------------------------------ *)
(* Platform constants                                                   *)
(* ------------------------------------------------------------------ *)
KernelWcetTicks == 1
CONFIG_KERNEL_WCET_SCALE == 1

getKernelWcetTicks == KernelWcetTicks

MIN_BUDGET == 2 * getKernelWcetTicks * CONFIG_KERNEL_WCET_SCALE

MIN_SC_BUDGET == 2 * MIN_BUDGET

(* ticks_t arithmetic is unsigned and wraps; the modulus is scaled down. *)
TAdd(a, b) == (a + b) % TicksModulus

TSub(a, b) == (a - b) % TicksModulus

VARIABLES sc, ksCurTime, ksReprogram, call, origin, hist, fresh, disciplined

vars == <<sc, ksCurTime, ksReprogram, call, origin, hist, fresh, disciplined>>

Slots == 0 .. (MaxRefills - 1)

Refill(t, a) == [rTime |-> t, rAmount |-> a]

(* ------------------------------------------------------------------ *)
(* Accessors (sporadic.h)                                               *)
(* ------------------------------------------------------------------ *)
refill_next(s, index) == IF index = s.scRefillMax - 1 THEN 0 ELSE index + 1

refill_size(s) == s.scRefillCount

refill_full(s) == s.scRefillCount = s.scRefillMax

refill_empty(s) == s.scRefillCount = 0

refill_tail_index(s) ==
    LET index == s.scRefillHead + s.scRefillCount - 1
    IN  IF index >= s.scRefillMax THEN index - s.scRefillMax ELSE index

index_valid(s, index) ==
    IF s.scRefillHead + s.scRefillCount > s.scRefillMax
    THEN IF index < s.scRefillHead + s.scRefillCount - s.scRefillMax THEN TRUE
         ELSE IF s.scRefillHead <= index THEN TRUE
         ELSE FALSE
    ELSE IF index < s.scRefillHead THEN FALSE
         ELSE IF s.scRefillHead + s.scRefillCount < index THEN FALSE
         ELSE TRUE

REFILL_INDEX(s, index) == s.refills[index]

REFILL_HEAD(s) == REFILL_INDEX(s, s.scRefillHead)

REFILL_TAIL(s) == REFILL_INDEX(s, refill_tail_index(s))

(* mutant: the difference is taken without the test for usage > amount *)
refill_capacity_wrap(s, usage) == TSub(REFILL_HEAD(s).rAmount, usage)

refill_capacity(s, usage) ==
    IF usage > REFILL_HEAD(s).rAmount THEN 0
    ELSE TSub(REFILL_HEAD(s).rAmount, usage)

refill_sufficient(s, usage) == refill_capacity(s, usage) >= MIN_BUDGET

(* mutant: the head is ready only once its time has come *)
refill_ready_nowcet(s, now) == REFILL_HEAD(s).rTime <= now

refill_ready(s, now) == REFILL_HEAD(s).rTime <= TAdd(now, getKernelWcetTicks)

sc_active(s) == s.scRefillMax > 0

isRoundRobin(s) == s.scPeriod = s.scBudget

(* index reached from the head after k applications of refill_next *)
RECURSIVE refill_nth(_, _)
refill_nth(s, k) ==
    IF k = 0 THEN s.scRefillHead ELSE refill_next(s, refill_nth(s, k - 1))

(* A slot outside the occupied arc is dead: no operation reads it before  *)
(* refill_add_tail or refill_update has written it.  The state keeps a    *)
(* dead slot as NoRefill, which has no rTime and no rAmount, so that a    *)
(* read of a dead slot is an evaluation error in TLC.                     *)
NoRefill == [free |-> TRUE]

Occupied(s, index) ==
    /\ index < s.scRefillMax
    /\ (index - s.scRefillHead) % s.scRefillMax < s.scRefillCount

Live(s) ==
    [s EXCEPT !.refills = [i \in Slots |-> IF Occupied(s, i) THEN s.refills[i] ELSE NoRefill]]

(* the queue read from the head, as a sequence of refills *)
refill_seq(s) == [k \in 1 .. s.scRefillCount |-> REFILL_INDEX(s, refill_nth(s, k - 1))]

(* ------------------------------------------------------------------ *)
(* Debug invariants (part_000 lines 60-150)                             *)
(* ------------------------------------------------------------------ *)
refill_ordered_disjoint(s) ==
    \A seen \in 1 .. (s.scRefillCount - 1) :
        LET current == refill_nth(s, seen - 1)
            next == refill_next(s, current)
        IN  TAdd(REFILL_INDEX(s, current).rTime, REFILL_INDEX(s, current).rAmount)
                <= REFILL_INDEX(s, next).rTime

refill_at_least_min_budget(s) ==
    \A seen \in 0 .. (s.scRefillCount - 1) :
        REFILL_INDEX(s, refill_nth(s, seen)).rAmount >= MIN_BUDGET

RECURSIVE refill_sum_from(_, _, _)
refill_sum_from(s, current, seen) ==
    IF seen < s.scRefillCount
    THEN TAdd(REFILL_INDEX(s, current).rAmount,
              refill_sum_from(s, refill_next(s, current), seen + 1))
    ELSE 0

refill_sum(s) == refill_sum_from(s, s.scRefillHead, 0)

refill_sum_to_budget(s) == refill_sum(s) = s.scBudget

refill_all_within_period(s) ==
    TSub(TAdd(REFILL_TAIL(s).rTime, REFILL_TAIL(s).rAmount), REFILL_HEAD(s).rTime)
        <= s.scPeriod

sched_invariants(s) ==
    /\ ~refill_empty(s)
    /\ s.scBudget >= MIN_SC_BUDGET
    /\ refill_ordered_disjoint(s)
    /\ refill_at_least_min_budget(s)
    /\ refill_all_within_period(s)
    /\ refill_sum_to_budget(s)

(* ------------------------------------------------------------------ *)
(* Queue primitives                                                     *)
(* ------------------------------------------------------------------ *)
(* mutant: the count drops but the head stays where it was *)
refill_pop_head_keep(s) == [s EXCEPT !.scRefillCount = s.scRefillCount - 1]

refill_pop_head(s) ==
    [s EXCEPT !.scRefillHead = refill_next(s, s.scRefillHead),
              !.scRefillCount = s.scRefillCount - 1]

refill_add_tail(s, refill) ==
    LET s1 == [s EXCEPT !.scRefillCount = s.scRefillCount + 1]
    IN  [s1 EXCEPT !.refills[refill_tail_index(s1)] = refill]

(* mutant: the first refill starts one period after the call *)
refill_new_later(s, max_refills, budget, period, now) ==
    LET s1 == [s EXCEPT !.scPeriod = period,
                        !.scBudget = budget,
                        !.scRefillHead = 0,
                        !.scRefillCount = 1,
                        !.scRefillMax = max_refills]
    IN  [s1 EXCEPT !.refills[s1.scRefillHead] = Refill(TAdd(now, period), budget)]

refill_new(s, max_refills, budget, period, now) ==
    LET s1 == [s EXCEPT !.scPeriod = period,
                        !.scBudget = budget,
                        !.scRefillHead = 0,
                        !.scRefillCount = 1,
                        !.scRefillMax = max_refills]
    IN  [s1 EXCEPT !.refills[s1.scRefillHead] = Refill(now, budget)]

(* mutant: the split does not move the new refill back *)
schedule_used_split_noshift(s, new) ==
    LET remainder == TSub(MIN_BUDGET, new.rAmount)
        new2 == Refill(new.rTime, TAdd(new.rAmount, remainder))
        t == refill_tail_index(s)
        s1 == [s EXCEPT !.refills[t].rAmount = TSub(s.refills[t].rAmount, remainder)]
    IN  refill_add_tail(s1, new2)

(* mutant: the split does not shrink the old tail *)
schedule_used_split_noshrink(s, new) ==
    LET remainder == TSub(MIN_BUDGET, new.rAmount)
        new2 == Refill(TSub(new.rTime, remainder), TAdd(new.rAmount, remainder))
    IN  refill_add_tail(s, new2)

schedule_used_split(s, new) ==
    LET remainder == TSub(MIN_BUDGET, new.rAmount)
        new2 == Refill(TSub(new.rTime, remainder), TAdd(new.rAmount, remainder))
        t == refill_tail_index(s)
        s1 == [s EXCEPT !.refills[t].rAmount = TSub(s.refills[t].rAmount, remainder)]
    IN  refill_add_tail(s1, new2)

(* mutant: the merged refill keeps the old tail's start *)
schedule_used_merge_early(s, new) ==
    LET t == refill_tail_index(s)
    IN  [s EXCEPT !.refills[t].rAmount = TAdd(s.refills[t].rAmount, new.rAmount)]

(* mutant: the merge assigns the new amount instead of adding it *)
schedule_used_merge_assign(s, new) ==
    LET t == refill_tail_index(s)
        tTime == TSub(new.rTime, s.refills[t].rAmount)
    IN  [s EXCEPT !.refills[t] = Refill(tTime, new.rAmount)]

schedule_used_merge(s, new) ==
    LET t == refill_tail_index(s)
        tTime == TSub(new.rTime, s.refills[t].rAmount)
    IN  [s EXCEPT !.refills[t] = Refill(tTime, TAdd(s.refills[t].rAmount, new.rAmount))]

(* mutant: an undersized refill is pushed whenever the queue has room *)
schedule_used_push(s, new) ==
    IF refill_empty(s) THEN refill_add_tail(s, new)
    ELSE IF refill_full(s) THEN schedule_used_merge(s, new)
    ELSE refill_add_tail(s, new)

(* mutant: an undersized refill is merged even when it could be split *)
schedule_used_merge_first(s, new) ==
    IF refill_empty(s) THEN refill_add_tail(s, new)
    ELSE IF new.rAmount < MIN_BUDGET \/ refill_full(s)
         THEN schedule_used_merge(s, new)
    ELSE refill_add_tail(s, new)

(* mutant: a full queue is not merged *)
schedule_used_nofull(s, new) ==
    IF refill_empty(s) THEN refill_add_tail(s, new)
    ELSE IF /\ new.rAmount < MIN_BUDGET
            /\ ~refill_full(s)
            /\ TAdd(REFILL_TAIL(s).rAmount, new.rAmount) >= 2 * MIN_BUDGET
         THEN schedule_used_split(s, new)
    ELSE IF new.rAmount < MIN_BUDGET
         THEN schedule_used_merge(s, new)
    ELSE refill_add_tail(s, new)

schedule_used(s, new) ==
    IF refill_empty(s) THEN refill_add_tail(s, new)
    ELSE IF /\ new.rAmount < MIN_BUDGET
            /\ ~refill_full(s)
            /\ TAdd(REFILL_TAIL(s).rAmount, new.rAmount) >= 2 * MIN_BUDGET
         THEN schedule_used_split(s, new)
    ELSE IF new.rAmount < MIN_BUDGET \/ refill_full(s)
         THEN schedule_used_merge(s, new)
    ELSE refill_add_tail(s, new)

(* mutant: a ready head keeps its time *)
refill_update_head_noslide(s, new_period, new_budget, new_max_refills, now) ==
    [s EXCEPT !.refills[0] = REFILL_HEAD(s),
              !.scRefillHead = 0,
              !.scRefillCount = 1,
              !.scRefillMax = new_max_refills,
              !.scPeriod = new_period,
              !.scBudget = new_budget]

(* refill_update up to its test of the head's amount: the queue cut to   *)
(* the head refill, moved to slot 0, under the new parameters.           *)
refill_update_head(s, new_period, new_budget, new_max_refills, now) ==
    LET s1 == [s EXCEPT !.refills[0] = REFILL_HEAD(s),
                        !.scRefillHead = 0,
                        !.scRefillCount = 1,
                        !.scRefillMax = new_max_refills,
                        !.scPeriod = new_period,
                        !.scBudget = new_budget]
    IN  IF refill_ready(s1, now)
        THEN [s1 EXCEPT !.refills[s1.scRefillHead].rTime = now]
        ELSE s1

(* mutant: the whole budget, not the unused part, is taken off the time *)
refill_update_unused_early(s2, new_period, new_budget) ==
    LET unused == TSub(new_budget, REFILL_HEAD(s2).rAmount)
    IN  Refill(TSub(TAdd(REFILL_HEAD(s2).rTime, new_period), new_budget), unused)

(* mutant: the unused budget is scheduled a full period after the head *)
refill_update_unused_late(s2, new_period, new_budget) ==
    LET unused == TSub(new_budget, REFILL_HEAD(s2).rAmount)
    IN  Refill(TAdd(REFILL_HEAD(s2).rTime, new_period), unused)

(* mutant: the period is not added before the unused budget is taken off *)
refill_update_unused_noperiod(s2, new_period, new_budget) ==
    LET unused == TSub(new_budget, REFILL_HEAD(s2).rAmount)
    IN  Refill(TSub(REFILL_HEAD(s2).rTime, unused), unused)

(* the refill refill_update schedules when the head is below the budget *)
refill_update_unused(s2, new_period, new_budget) ==
    LET unused == TSub(new_budget, REFILL_HEAD(s2).rAmount)
    IN  Refill(TSub(TAdd(REFILL_HEAD(s2).rTime, new_period), unused), unused)

(* mutant: a head above the new budget is not trimmed *)
refill_update_notrim(s, new_period, new_budget, new_max_refills, now) ==
    LET s2 == refill_update_head(s, new_period, new_budget, new_max_refills, now)
    IN  IF REFILL_HEAD(s2).rAmount >= new_budget
        THEN s2
        ELSE schedule_used(s2, refill_update_unused(s2, new_period, new_budget))

refill_update(s, new_period, new_budget, new_max_refills, now) ==
    LET s2 == refill_update_head(s, new_period, new_budget, new_max_refills, now)
    IN  IF REFILL_HEAD(s2).rAmount >= new_budget
        THEN [s2 EXCEPT !.refills[s2.scRefillHead].rAmount = new_budget]
        ELSE schedule_used(s2, refill_update_unused(s2, new_period, new_budget))

(* mutant: the overrun schedules the usage, not the budget *)
refill_budget_check_overrun_usage(s, usage, used) ==
    [sc |-> [s EXCEPT !.scRefillCount = 0],
     used |-> Refill(TAdd(used.rTime, usage), usage)]

(* mutant: the overrun refill is not delayed by the usage *)
refill_budget_check_overrun_early(s, usage, used) ==
    [sc |-> [s EXCEPT !.scRefillCount = 0],
     used |-> Refill(used.rTime, s.scBudget)]

(* mutant: an overrun also makes the usage the SC's budget *)
refill_budget_check_overrun_rebudget(s, usage, used) ==
    [sc |-> [s EXCEPT !.scRefillCount = 0, !.scBudget = usage],
     used |-> Refill(TAdd(used.rTime, usage), s.scBudget)]

(* the overrun branch of refill_budget_check: the queue is emptied and   *)
(* the whole budget is scheduled after the period and the usage          *)
refill_budget_check_overrun(s, usage, used) ==
    [sc |-> [s EXCEPT !.scRefillCount = 0],
     used |-> Refill(TAdd(used.rTime, usage), s.scBudget)]

(* mutant: the consumed head refill is not removed *)
refill_budget_check_exact_keep(s, used) == [sc |-> s, used |-> used]

(* the branch of refill_budget_check for usage = head.amount: the head   *)
(* is removed and the whole usage is scheduled                           *)
refill_budget_check_exact(s, used) == [sc |-> refill_pop_head(s), used |-> used]

(* mutant: the head keeps its start when it is shrunk *)
refill_budget_check_partial_nomove(s, usage, remnant) ==
    LET h == s.scRefillHead
    IN  [s EXCEPT !.refills[h] = Refill(s.refills[h].rTime, remnant)]

(* the remnant of at least MIN_BUDGET stays in the head, which starts    *)
(* after the usage                                                       *)
refill_budget_check_partial(s, usage, remnant) ==
    LET h == s.scRefillHead
    IN  [s EXCEPT !.refills[h] = Refill(TAdd(s.refills[h].rTime, usage), remnant)]

(* mutant: the remnant is given to the next refill without moving it *)
refill_budget_check_donate_late(s, used, remnant) ==
    LET s1 == refill_pop_head(s)
        h1 == s1.scRefillHead
    IN  IF refill_empty(s1)
        THEN [sc |-> s1,
              used |-> Refill(used.rTime, TAdd(used.rAmount, remnant))]
        ELSE [sc |-> [s1 EXCEPT !.refills[h1] =
                         Refill(s1.refills[h1].rTime,
                                TAdd(s1.refills[h1].rAmount, remnant))],
              used |-> used]

(* a remnant below MIN_BUDGET is merged into the start of the following  *)
(* refill, or into the used time when no refill follows                  *)
refill_budget_check_donate(s, used, remnant) ==
    LET s1 == refill_pop_head(s)
        h1 == s1.scRefillHead
    IN  IF refill_empty(s1)
        THEN [sc |-> s1,
              used |-> Refill(TSub(used.rTime, remnant),
                              TAdd(used.rAmount, remnant))]
        ELSE [sc |-> [s1 EXCEPT !.refills[h1] =
                         Refill(TSub(s1.refills[h1].rTime, remnant),
                                TAdd(s1.refills[h1].rAmount, remnant))],
              used |-> used]

(* refill_budget_check up to, not including, the call of schedule_used:  *)
(* the queue after the charge and the refill `used` to be scheduled.     *)
refill_budget_check_charge(s, usage, now) ==
    LET last_entry == REFILL_HEAD(s).rTime
        used == Refill(TAdd(last_entry, s.scPeriod), usage)
    IN  IF ~refill_ready(s, now) \/ REFILL_HEAD(s).rAmount < usage
        THEN refill_budget_check_overrun(s, usage, used)
        ELSE IF usage = REFILL_HEAD(s).rAmount
        THEN refill_budget_check_exact(s, used)
        ELSE LET remnant == TSub(REFILL_HEAD(s).rAmount, usage)
             IN  IF remnant >= MIN_BUDGET
                 THEN [sc |-> refill_budget_check_partial(s, usage, remnant),
                       used |-> used]
                 ELSE refill_budget_check_donate(s, used, remnant)

(* mutant: the used time is never scheduled *)
refill_budget_check_unscheduled(s, usage, now) ==
    refill_budget_check_charge(s, usage, now).sc

refill_budget_check(s, usage, now) ==
    LET c == refill_budget_check_charge(s, usage, now)
    IN  schedule_used(c.sc, c.used)

(* mutant: the head is slid forward but no refill is merged *)
refill_unblock_merge_none(s, now) == s

(* mutant: at most one refill is merged into the head *)
refill_unblock_merge_once(s, now) ==
    IF refill_size(s) > 1
    THEN LET amount == REFILL_HEAD(s).rAmount
             tail == TAdd(REFILL_HEAD(s).rTime, amount)
         IN  IF REFILL_INDEX(s, refill_next(s, s.scRefillHead)).rTime <= tail
             THEN LET s1 == refill_pop_head(s)
                      h1 == s1.scRefillHead
                  IN  [s1 EXCEPT !.refills[h1] =
                          Refill(TAdd(now, getKernelWcetTicks),
                                 TAdd(s1.refills[h1].rAmount, amount))]
             ELSE s
    ELSE s

(* the merge loop of refill_unblock_check *)
RECURSIVE refill_unblock_merge(_, _)
refill_unblock_merge(s, now) ==
    IF refill_size(s) > 1
    THEN LET amount == REFILL_HEAD(s).rAmount
             tail == TAdd(REFILL_HEAD(s).rTime, amount)
         IN  IF REFILL_INDEX(s, refill_next(s, s.scRefillHead)).rTime <= tail
             THEN LET s1 == refill_pop_head(s)
                      h1 == s1.scRefillHead
                  IN  refill_unblock_merge(
                          [s1 EXCEPT !.refills[h1] =
                              Refill(TAdd(now, getKernelWcetTicks),
                                     TAdd(s1.refills[h1].rAmount, amount))],
                          now)
             ELSE s
    ELSE s

(* mutant: the head refill is not slid forward to now + wcet *)
refill_unblock_check_noslide(s, now) ==
    IF isRoundRobin(s) THEN s
    ELSE IF refill_ready(s, now)
         THEN refill_unblock_merge(s, now)
         ELSE s

(* mutant: the head refill is slid one wcet too far *)
refill_unblock_check_late(s, now) ==
    IF isRoundRobin(s) THEN s
    ELSE IF refill_ready(s, now)
         THEN refill_unblock_merge(
                  [s EXCEPT !.refills[s.scRefillHead].rTime =
                      TAdd(TAdd(now, getKernelWcetTicks), getKernelWcetTicks)],
                  now)
         ELSE s

(* mutant: the head refill is set to now, without the wcet *)
refill_unblock_check_now(s, now) ==
    IF isRoundRobin(s) THEN s
    ELSE IF refill_ready(s, now)
         THEN refill_unblock_merge([s EXCEPT !.refills[s.scRefillHead].rTime = now], now)
         ELSE s

refill_unblock_check(s, now) ==
    IF isRoundRobin(s) THEN s
    ELSE IF refill_ready(s, now)
         THEN refill_unblock_merge(
                  [s EXCEPT !.refills[s.scRefillHead].rTime = TAdd(now, getKernelWcetTicks)],
                  now)
         ELSE s

(* mutant: the reprogram flag is set for a round-robin SC too *)
refill_unblock_reprogram_rr(s, now, reprogram) ==
    IF refill_ready(s, now) THEN TRUE ELSE reprogram

(* mutant: the reprogram flag is set whether or not the head is ready *)
refill_unblock_reprogram_always(s, now, reprogram) ==
    IF ~isRoundRobin(s) THEN TRUE ELSE reprogram

(* ksReprogram after refill_unblock_check *)
refill_unblock_reprogram(s, now, reprogram) ==
    IF ~isRoundRobin(s) /\ refill_ready(s, now) THEN TRUE ELSE reprogram

(* ------------------------------------------------------------------ *)
(* Execution history, for the sliding-window bandwidth bound            *)
(* ------------------------------------------------------------------ *)
HistLen == MaxPeriod

NoHist == [i \in 1 .. HistLen |-> 0]

(* the history after one more tick, in which the thread ran (x = 1) or not *)
HistPush(h, x) == [i \in 1 .. HistLen |-> IF i < HistLen THEN h[i + 1] ELSE x]

RECURSIVE HistRun(_, _)
HistRun(h, n) == IF n = 0 THEN h ELSE HistRun(HistPush(h, 1), n - 1)

RECURSIVE HistSum(_, _)
HistSum(h, n) == IF n = 0 THEN 0 ELSE h[HistLen - n + 1] + HistSum(h, n - 1)

(* ticks the thread ran in the window of length p that ends now *)
Executed(p) == HistSum(hist, IF p > HistLen THEN HistLen ELSE p)

(* ------------------------------------------------------------------ *)
(* State machine                                                        *)
(* ------------------------------------------------------------------ *)
(* which branch refill_budget_check takes *)
budget_check_case(s, usage, now) ==
    IF ~refill_ready(s, now) \/ REFILL_HEAD(s).rAmount < usage THEN "overrun"
    ELSE IF usage = REFILL_HEAD(s).rAmount THEN "exact"
    ELSE IF TSub(REFILL_HEAD(s).rAmount, usage) >= MIN_BUDGET THEN "partial"
    ELSE "donate"

(* which branch schedule_used takes *)
schedule_used_case(s, new) ==
    IF refill_empty(s) THEN "empty"
    ELSE IF /\ new.rAmount < MIN_BUDGET
            /\ ~refill_full(s)
            /\ TAdd(REFILL_TAIL(s).rAmount, new.rAmount) >= 2 * MIN_BUDGET
         THEN "split"
    ELSE IF new.rAmount < MIN_BUDGET \/ refill_full(s) THEN "merge"
    ELSE "push"

(* ------------------------------------------------------------------ *)
(* Slot accesses.  Every REFILL_INDEX, REFILL_HEAD and REFILL_TAIL goes  *)
(* through refill_index, which asserts that the queue is not empty,     *)
(* that index < scRefillMax and that index_valid(sc, index).  Each      *)
(* operator below lists, in program order, the accesses of one function *)
(* as pairs of the SC at the moment of the access and the index.        *)
(* ------------------------------------------------------------------ *)
refill_index_asserts(s, index) ==
    /\ ~refill_empty(s)
    /\ index < s.scRefillMax
    /\ index_valid(s, index)

Access(s, index) == [s |-> s, index |-> index]

HeadAccess(s) == Access(s, s.scRefillHead)

TailAccess(s) == Access(s, refill_tail_index(s))

refill_pop_head_accesses(s) == <<HeadAccess(s)>>

refill_add_tail_accesses(s, refill) ==
    <<TailAccess([s EXCEPT !.scRefillCount = s.scRefillCount + 1])>>

refill_new_accesses(s, max_refills, budget, period) ==
    LET s1 == [s EXCEPT !.scPeriod = period,
                        !.scBudget = budget,
                        !.scRefillHead = 0,
                        !.scRefillCount = 1,
                        !.scRefillMax = max_refills]
    IN  <<HeadAccess(s1), HeadAccess(s1)>>

schedule_used_accesses(s, new) ==
    IF refill_empty(s) THEN refill_add_tail_accesses(s, new)
    ELSE <<TailAccess(s), TailAccess(s)>> \o
         (IF schedule_used_case(s, new) = "split"
          THEN <<TailAccess(s), TailAccess(s)>> \o refill_add_tail_accesses(s, new)
          ELSE IF schedule_used_case(s, new) = "merge"
          THEN <<TailAccess(s), TailAccess(s), TailAccess(s)>>
          ELSE refill_add_tail_accesses(s, new))

refill_update_accesses(s, new_period, new_budget, new_max_refills, now) ==
    LET s1 == [s EXCEPT !.scRefillHead = 0,
                        !.scRefillCount = 1,
                        !.scRefillMax = new_max_refills,
                        !.scPeriod = new_period,
                        !.scBudget = new_budget]
        s2 == refill_update_head(s, new_period, new_budget, new_max_refills, now)
    IN  <<HeadAccess(s), Access(s, 0), HeadAccess(s1)>> \o
        (IF refill_ready(refill_update_head_noslide(s, new_period, new_budget,
                                                    new_max_refills, now), now)
         THEN <<HeadAccess(s1)>> ELSE <<>>) \o
        <<HeadAccess(s2)>> \o
        (IF REFILL_HEAD(s2).rAmount >= new_budget
         THEN <<HeadAccess(s2)>>
         ELSE <<HeadAccess(s2), HeadAccess(s2)>> \o
              schedule_used_accesses(s2, refill_update_unused(s2, new_period, new_budget)))

refill_budget_check_accesses(s, usage, now) ==
    LET c == refill_budget_check_charge(s, usage, now)
        case == budget_check_case(s, usage, now)
        s1 == refill_pop_head(s)
    IN  <<HeadAccess(s), HeadAccess(s), HeadAccess(s)>> \o
        (IF case = "overrun" THEN <<>>
         ELSE IF case = "exact" THEN <<HeadAccess(s)>> \o refill_pop_head_accesses(s)
         ELSE IF case = "partial"
         THEN <<HeadAccess(s), HeadAccess(s), HeadAccess(s), HeadAccess(s)>>
         ELSE <<HeadAccess(s), HeadAccess(s)>> \o refill_pop_head_accesses(s) \o
              (IF refill_empty(s1) THEN <<>> ELSE <<HeadAccess(s1), HeadAccess(s1)>>)) \o
        schedule_used_accesses(c.sc, c.used)

RECURSIVE refill_unblock_merge_accesses(_, _)
refill_unblock_merge_accesses(s, now) ==
    IF refill_size(s) > 1
    THEN LET amount == REFILL_HEAD(s).rAmount
             tail == TAdd(REFILL_HEAD(s).rTime, amount)
             here == <<HeadAccess(s), HeadAccess(s),
                       Access(s, refill_next(s, s.scRefillHead))>>
         IN  IF REFILL_INDEX(s, refill_next(s, s.scRefillHead)).rTime <= tail
             THEN LET s1 == refill_pop_head(s)
                      h1 == s1.scRefillHead
                  IN  here \o refill_pop_head_accesses(s) \o
                      <<HeadAccess(s1), HeadAccess(s1)>> \o
                      refill_unblock_merge_accesses(
                          [s1 EXCEPT !.refills[h1] =
                              Refill(TAdd(now, getKernelWcetTicks),
                                     TAdd(s1.refills[h1].rAmount, amount))],
                          now)
             ELSE here
    ELSE <<>>

refill_unblock_check_accesses(s, now) ==
    IF isRoundRobin(s) THEN <<>>
    ELSE <<HeadAccess(s)>> \o
         (IF refill_ready(s, now)
          THEN LET s1 == [s EXCEPT !.refills[s.scRefillHead].rTime =
                                      TAdd(now, getKernelWcetTicks)]
                   s2 == refill_unblock_merge(s1, now)
               IN  <<HeadAccess(s)>> \o refill_unblock_merge_accesses(s1, now) \o
                   <<HeadAccess(s2), HeadAccess(s2)>>
          ELSE <<>>)

AccessesValid(accesses) ==
    \A k \in 1 .. Len(accesses) :
        refill_index_asserts(accesses[k].s, accesses[k].index)

(* the model follows the queue while every refill starts by MaxRefillTime *)
WithinHorizon(s) ==
    \A k \in 0 .. (s.scRefillCount - 1) :
        LET r == REFILL_INDEX(s, refill_nth(s, k))
        IN  r.rTime <= MaxRefillTime

NoCall == [op |-> "none", usage |-> 0, case |-> "none", used |-> "none"]

InitSC ==
    [scPeriod |-> 0, scBudget |-> 0, scRefillMax |-> 0,
     scRefillHead |-> 0, scRefillCount |-> 0,
     refills |-> [i \in Slots |-> NoRefill]]

Init ==
    /\ sc = InitSC
    /\ ksCurTime = 0
    /\ ksReprogram = FALSE
    /\ call = NoCall
    /\ origin = "none"
    /\ hist = NoHist
    /\ fresh = FALSE
    /\ disciplined = TRUE

(* the clock advances one tick while the thread of the SC does not run *)
Tick ==
    /\ ksCurTime < MaxTime
    /\ ksCurTime' = ksCurTime + 1
    /\ UNCHANGED <<sc, ksReprogram, call, origin, hist, fresh, disciplined>>

RefillNewArgs(max_refills, budget, period) ==
    /\ ~sc_active(sc)
    /\ budget <= period
    /\ sc' = Live(refill_new(sc, max_refills, budget, period, ksCurTime))
    /\ call' = [NoCall EXCEPT !.op = "refill_new"]
    /\ UNCHANGED <<origin, ksCurTime, ksReprogram, hist, fresh, disciplined>>

RefillNew ==
    \E max_refills \in 1 .. MaxRefills, budget \in (MIN_BUDGET + 1) .. MaxBudget,
       period \in 1 .. MaxPeriod :
        RefillNewArgs(max_refills, budget, period)

RefillUpdateArgs(new_max_refills, new_budget, new_period) ==
    /\ sc_active(sc)
    /\ new_budget <= new_period
    /\ sc' = Live(refill_update(sc, new_period, new_budget, new_max_refills, ksCurTime))
    /\ WithinHorizon(sc')
    /\ call' = LET s2 == refill_update_head(sc, new_period, new_budget,
                                            new_max_refills, ksCurTime)
               IN  [NoCall EXCEPT
                      !.op = "refill_update",
                      !.case = IF REFILL_HEAD(s2).rAmount >= new_budget
                               THEN "truncate" ELSE "schedule",
                      !.used = IF REFILL_HEAD(s2).rAmount >= new_budget THEN "none"
                               ELSE schedule_used_case(
                                        s2, refill_update_unused(s2, new_period,
                                                                 new_budget))]
    /\ UNCHANGED <<origin, ksCurTime, ksReprogram, hist, fresh, disciplined>>

RefillUpdate ==
    \E new_max_refills \in 1 .. MaxRefills, new_budget \in MIN_SC_BUDGET .. MaxBudget,
       new_period \in 1 .. MaxPeriod :
        RefillUpdateArgs(new_max_refills, new_budget, new_period)

(* the current thread runs for usage ticks and is then charged for them *)
RefillBudgetCheckUsage(usage) ==
    /\ sc_active(sc)
    /\ ~isRoundRobin(sc)
    /\ ksCurTime + usage <= MaxTime
    /\ ksCurTime' = ksCurTime + usage
    /\ sc' = Live(refill_budget_check(sc, usage, ksCurTime'))
    /\ WithinHorizon(sc')
    /\ call' = LET c == refill_budget_check_charge(sc, usage, ksCurTime')
               IN  [op |-> "refill_budget_check", usage |-> usage,
                    case |-> budget_check_case(sc, usage, ksCurTime'),
                    used |-> schedule_used_case(c.sc, c.used)]
    /\ UNCHANGED <<ksReprogram, origin, hist, fresh, disciplined>>

RefillBudgetCheck == \E usage \in 0 .. MaxUsage : RefillBudgetCheckUsage(usage)

RefillUnblockCheck ==
    /\ sc_active(sc)
    /\ sc' = Live(refill_unblock_check(sc, ksCurTime))
    /\ ksReprogram' = refill_unblock_reprogram(sc, ksCurTime, ksReprogram)
    /\ call' = [NoCall EXCEPT
                  !.op = "refill_unblock_check",
                  !.case = IF isRoundRobin(sc) THEN "roundrobin"
                           ELSE IF refill_ready(sc, ksCurTime) THEN "ready"
                           ELSE "notready"]
    /\ UNCHANGED <<ksCurTime, origin, hist, fresh, disciplined>>

Next ==
    \/ Tick
    \/ RefillNew
    \/ RefillUpdate
    \/ RefillBudgetCheck
    \/ RefillUnblockCheck

Spec == Init /\ [][Next]_vars

(* ------------------------------------------------------------------ *)
(* The thread of a sporadic SC, for the sliding-window bound.           *)
(* The thread runs only while the head refill is ready and is charged   *)
(* at most the head refill (no overrun).  `fresh` records that          *)
(* refill_unblock_check or a charge was the last thing to happen, i.e.  *)
(* no time has passed since; `disciplined` records that every run so    *)
(* far started in a fresh state, as the comment in refill_budget_check  *)
(* (part_000 lines 291-294) expects of the kernel.                      *)
(* ------------------------------------------------------------------ *)
BWMaxTime == MaxTime + MaxBudget - 1

BWMaxRefillTime == BWMaxTime + MaxPeriod

BWWithinHorizon(s) ==
    \A k \in 0 .. (s.scRefillCount - 1) :
        REFILL_INDEX(s, refill_nth(s, k)).rTime <= BWMaxRefillTime

BW_Idle ==
    /\ ksCurTime < BWMaxTime
    /\ ksCurTime' = ksCurTime + 1
    /\ hist' = HistPush(hist, 0)
    /\ fresh' = FALSE
    /\ UNCHANGED <<sc, ksReprogram, call, origin, disciplined>>

BW_New ==
    /\ ~sc_active(sc)
    /\ \E max_refills \in 1 .. MaxRefills, budget \in MIN_SC_BUDGET .. MaxBudget,
          period \in 1 .. MaxPeriod :
        /\ budget < period
        /\ sc' = Live(refill_new(sc, max_refills, budget, period, ksCurTime))
    /\ origin' = "new"
    /\ hist' = NoHist
    /\ fresh' = FALSE
    /\ disciplined' = TRUE
    /\ UNCHANGED <<ksCurTime, ksReprogram, call>>

BW_Update ==
    /\ sc_active(sc)
    /\ \E new_max_refills \in 1 .. MaxRefills, new_budget \in MIN_SC_BUDGET .. MaxBudget,
          new_period \in 1 .. MaxPeriod :
        /\ new_budget < new_period
        /\ sc' = Live(refill_update(sc, new_period, new_budget, new_max_refills, ksCurTime))
        /\ BWWithinHorizon(sc')
    /\ origin' = "updated"
    /\ hist' = NoHist
    /\ fresh' = FALSE
    /\ disciplined' = TRUE
    /\ UNCHANGED <<ksCurTime, ksReprogram, call>>

BW_Unblock ==
    /\ sc_active(sc)
    /\ sc' = Live(refill_unblock_check(sc, ksCurTime))
    /\ ksReprogram' = refill_unblock_reprogram(sc, ksCurTime, ksReprogram)
    /\ fresh' = TRUE
    /\ UNCHANGED <<ksCurTime, call, origin, hist, disciplined>>

BW_Run ==
    /\ sc_active(sc)
    /\ ~isRoundRobin(sc)
    /\ refill_ready(sc, ksCurTime)
    /\ \E usage \in 0 .. REFILL_HEAD(sc).rAmount :
        /\ ksCurTime + usage <= BWMaxTime
        /\ ksCurTime' = ksCurTime + usage
        /\ sc' = Live(refill_budget_check(sc, usage, ksCurTime'))
        /\ BWWithinHorizon(sc')
        /\ hist' = HistRun(hist, usage)
    /\ fresh' = TRUE
    /\ disciplined' = (disciplined /\ fresh)
    /\ UNCHANGED <<ksReprogram, call, origin>>

BWNext ==
    \/ BW_Idle
    \/ BW_New
    \/ BW_Update
    \/ BW_Unblock
    \/ BW_Run

SpecBW == Init /\ [][BWNext]_vars

(* ticks the thread ran in the window of length period that ends now,  *)
(* counted from the last refill_new or refill_update                   *)
BandwidthBound == Executed(sc.scPeriod) <= sc.scBudget

(* the window that ends now holds a pause between two runs *)
WindowHasPause ==
    \E i, j, k \in (HistLen - sc.scPeriod + 1) .. HistLen :
        /\ i < j
        /\ j < k
        /\ hist[i] = 1
        /\ hist[j] = 0
        /\ hist[k] = 1

(* ------------------------------------------------------------------ *)
(* The queries and refill_unblock_check on every queue that satisfies   *)
(* the invariants: the SC starts as any queue sched_invariants accepts  *)
(* (times up to MaxRefillTime), at any time up to MaxTime.              *)
(* ------------------------------------------------------------------ *)
(* budgets and periods one above those of the other specifications, so  *)
(* that a queue of MaxRefills refills of MIN_BUDGET exists and is not    *)
(* round-robin                                                           *)
QMaxBudget == MaxBudget + 1

QMaxPeriod == MaxPeriod + 1

(* the sequences of 1 .. n ordered, disjoint refills of at least         *)
(* MIN_BUDGET that start at or after t and sum to b                      *)
RECURSIVE QueuesOf(_, _, _)
QueuesOf(t, b, n) ==
    IF n = 0 \/ b < MIN_BUDGET THEN {}
    ELSE {<<Refill(t1, b)>> : t1 \in t .. MaxRefillTime}
         \cup UNION {{<<Refill(t1, a)>> \o q : q \in QueuesOf(t1 + a, b - a, n - 1)} :
                        t1 \in t .. MaxRefillTime, a \in MIN_BUDGET .. (b - MIN_BUDGET)}

(* the SC that holds the refills of q from slot head on *)
QueueSC(max_refills, head, period, budget, q) ==
    [scPeriod |-> period, scBudget |-> budget, scRefillMax |-> max_refills,
     scRefillHead |-> head, scRefillCount |-> Len(q),
     refills |-> [i \in Slots |->
                    LET k == (i - head) % max_refills
                    IN  IF i < max_refills /\ k < Len(q) THEN q[k + 1] ELSE NoRefill]]

QueueInit ==
    /\ \E budget \in MIN_SC_BUDGET .. QMaxBudget, max_refills \in 1 .. MaxRefills :
        \E period \in budget .. QMaxPeriod, head \in 0 .. (max_refills - 1),
           q \in QueuesOf(0, budget, max_refills) :
            /\ sc = QueueSC(max_refills, head, period, budget, q)
            /\ sched_invariants(sc)
    /\ ksCurTime \in 0 .. MaxTime
    /\ ksReprogram = FALSE
    /\ call = NoCall
    /\ origin = "none"
    /\ hist = NoHist
    /\ fresh = FALSE
    /\ disciplined = TRUE

QueryCall(op, usage, result) == [op |-> op, usage |-> usage, result |-> result]

Q_Frame == UNCHANGED <<sc, ksCurTime, ksReprogram, origin, hist, fresh, disciplined>>

Q_CapacityUsage(usage) ==
    /\ call' = QueryCall("refill_capacity", usage, refill_capacity(sc, usage))
    /\ Q_Frame

Q_Capacity == \E usage \in 0 .. MaxUsage : Q_CapacityUsage(usage)

Q_SufficientUsage(usage) ==
    /\ call' = QueryCall("refill_sufficient", usage, refill_sufficient(sc, usage))
    /\ Q_Frame

Q_Sufficient == \E usage \in 0 .. MaxUsage : Q_SufficientUsage(usage)

Q_Ready ==
    /\ call' = QueryCall("refill_ready", 0, refill_ready(sc, ksCurTime))
    /\ Q_Frame

Q_Size ==
    /\ call' = QueryCall("refill_size", 0, refill_size(sc))
    /\ Q_Frame

Q_Unblock ==
    /\ sc' = Live(refill_unblock_check(sc, ksCurTime))
    /\ ksReprogram' = refill_unblock_reprogram(sc, ksCurTime, ksReprogram)
    /\ call' = QueryCall("refill_unblock_check", 0,
                         [case |-> IF isRoundRobin(sc) THEN "roundrobin"
                                   ELSE IF refill_ready(sc, ksCurTime) THEN "ready"
                                   ELSE "notready",
                          count |-> sc.scRefillCount])
    /\ UNCHANGED <<ksCurTime, origin, hist, fresh, disciplined>>

QueryNext ==
    \/ Q_Capacity
    \/ Q_Sufficient
    \/ Q_Ready
    \/ Q_Size
    \/ Q_Unblock

SpecQ == QueueInit /\ [][QueryNext]_vars

(* ------------------------------------------------------------------ *)
(* The circular buffer on its own: every head < max_refills and every   *)
(* count from 0 to max_refills, with refills that only need to be told  *)
(* apart.  refill_pop_head and refill_add_tail run under their          *)
(* assertions on the size, refill_tail_index under its assertion that   *)
(* count >= 1.                                                          *)
(* ------------------------------------------------------------------ *)
BufRefills == {Refill(t, MIN_BUDGET) : t \in 0 .. 2}

BufQueues(n) == UNION {[1 .. k -> BufRefills] : k \in 0 .. n}

BufInit ==
    /\ \E max_refills \in 1 .. MaxRefills :
        \E head \in 0 .. (max_refills - 1), q \in BufQueues(max_refills) :
            sc = QueueSC(max_refills, head, MIN_SC_BUDGET, MIN_SC_BUDGET, q)
    /\ ksCurTime = 0
    /\ ksReprogram = FALSE
    /\ call = NoCall
    /\ origin = "none"
    /\ hist = NoHist
    /\ fresh = FALSE
    /\ disciplined = TRUE

B_IndexValidAt(index) ==
    /\ index < sc.scRefillMax
    /\ call' = QueryCall("index_valid", index, index_valid(sc, index))
    /\ Q_Frame

B_IndexValid == \E index \in Slots : B_IndexValidAt(index)

B_TailIndex ==
    /\ sc.scRefillCount >= 1
    /\ call' = QueryCall("refill_tail_index", 0, refill_tail_index(sc))
    /\ Q_Frame

B_PopHead ==
    /\ refill_size(sc) > 0
    /\ sc' = Live(refill_pop_head(sc))
    /\ call' = QueryCall("refill_pop_head", 0, REFILL_HEAD(sc))
    /\ UNCHANGED <<ksCurTime, ksReprogram, origin, hist, fresh, disciplined>>

B_AddTailRefill(refill) ==
    /\ refill_size(sc) < sc.scRefillMax
    /\ sc' = Live(refill_add_tail(sc, refill))
    /\ call' = QueryCall("refill_add_tail", 0, refill)
    /\ UNCHANGED <<ksCurTime, ksReprogram, origin, hist, fresh, disciplined>>

B_AddTail == \E refill \in BufRefills : B_AddTailRefill(refill)

BufNext ==
    \/ B_IndexValid
    \/ B_TailIndex
    \/ B_PopHead
    \/ B_AddTail

SpecBuf == BufInit /\ [][BufNext]_vars

(* ------------------------------------------------------------------ *)
(* refill_unblock_check statement by statement, from every queue that   *)
(* satisfies sched_invariants: the tests before the loop, then one step *)
(* per iteration of the merge loop.  The kernel runs the function to    *)
(* its end without preemption, so a step that can be taken is taken.    *)
(* ------------------------------------------------------------------ *)
(* the test of the while loop together with the test before its break *)
refill_unblock_merge_continue(s) ==
    /\ refill_size(s) > 1
    /\ REFILL_INDEX(s, refill_next(s, s.scRefillHead)).rTime
          <= TAdd(REFILL_HEAD(s).rTime, REFILL_HEAD(s).rAmount)

(* mutant: the head is merged into the next refill without being removed *)
refill_unblock_merge_step_nopop(s, now) ==
    LET amount == REFILL_HEAD(s).rAmount
        h1 == s.scRefillHead
    IN  [s EXCEPT !.refills[h1] =
            Refill(TAdd(now, getKernelWcetTicks), TAdd(s.refills[h1].rAmount, amount))]

(* one iteration of the merge loop *)
refill_unblock_merge_step(s, now) ==
    LET amount == REFILL_HEAD(s).rAmount
        s1 == refill_pop_head(s)
        h1 == s1.scRefillHead
    IN  [s1 EXCEPT !.refills[h1] =
            Refill(TAdd(now, getKernelWcetTicks), TAdd(s1.refills[h1].rAmount, amount))]

LoopCall(pc, iters, entry) ==
    [op |-> "refill_unblock_check", pc |-> pc, iters |-> iters, entry |-> entry]

LoopInit ==
    /\ \E budget \in MIN_SC_BUDGET .. QMaxBudget, max_refills \in 1 .. MaxRefills :
        \E period \in budget .. QMaxPeriod, head \in 0 .. (max_refills - 1),
           q \in QueuesOf(0, budget, max_refills) :
            /\ sc = QueueSC(max_refills, head, period, budget, q)
            /\ sched_invariants(sc)
    /\ ksCurTime \in 0 .. MaxTime
    /\ ksReprogram = FALSE
    /\ call = LoopCall("start", 0, sc)
    /\ origin = "none"
    /\ hist = NoHist
    /\ fresh = FALSE
    /\ disciplined = TRUE

L_Frame == UNCHANGED <<ksCurTime, origin, hist, fresh, disciplined>>

L_RoundRobin ==
    /\ call.pc = "start"
    /\ isRoundRobin(sc)
    /\ call' = [call EXCEPT !.pc = "done"]
    /\ UNCHANGED <<sc, ksReprogram>>
    /\ L_Frame

L_NotReady ==
    /\ call.pc = "start"
    /\ ~isRoundRobin(sc)
    /\ ~refill_ready(sc, ksCurTime)
    /\ call' = [call EXCEPT !.pc = "done"]
    /\ UNCHANGED <<sc, ksReprogram>>
    /\ L_Frame

L_Ready ==
    /\ call.pc = "start"
    /\ ~isRoundRobin(sc)
    /\ refill_ready(sc, ksCurTime)
    /\ ksReprogram' = TRUE
    /\ sc' = [sc EXCEPT !.refills[sc.scRefillHead].rTime =
                           TAdd(ksCurTime, getKernelWcetTicks)]
    /\ call' = [call EXCEPT !.pc = "loop"]
    /\ L_Frame

L_Iterate ==
    /\ call.pc = "loop"
    /\ call.iters < MaxRefills
    /\ refill_unblock_merge_continue(sc)
    /\ sc' = Live(refill_unblock_merge_step(sc, ksCurTime))
    /\ call' = [call EXCEPT !.iters = call.iters + 1]
    /\ UNCHANGED ksReprogram
    /\ L_Frame

L_Exit ==
    /\ call.pc = "loop"
    /\ ~refill_unblock_merge_continue(sc)
    /\ call' = [call EXCEPT !.pc = "done"]
    /\ UNCHANGED <<sc, ksReprogram>>
    /\ L_Frame

LoopNext ==
    \/ L_RoundRobin
    \/ L_NotReady
    \/ L_Ready
    \/ L_Iterate
    \/ L_Exit

SpecLoop == LoopInit /\ [][LoopNext]_vars /\ WF_vars(LoopNext)

(* ------------------------------------------------------------------ *)
(* Claims                                                               *)
(* ------------------------------------------------------------------ *)

(* C2: after refill_new and after every later refill_update,            *)
(* refill_budget_check and refill_unblock_check, the amounts of the      *)
(* refills in the queue sum to the SC's budget; refill_budget_check and  *)
(* refill_unblock_check leave the sum as it was at entry.                *)
C2_SumInvariant ==
    /\ [](sc_active(sc) => refill_sum_to_budget(sc))
    /\ [][(RefillBudgetCheck \/ RefillUnblockCheck) => refill_sum(sc') = refill_sum(sc)]_vars

C2_Witness ==
    /\ call.op = "refill_budget_check"
    /\ call.case = "donate"
    /\ call.used = "split"
    /\ sc.scRefillCount = 2
    /\ refill_sum(sc) = sc.scBudget

(* C3: after every public operation, each refill ends (time + amount)    *)
(* no later than the next refill in queue order starts.                  *)
C3_OrderedDisjoint == sc_active(sc) => refill_ordered_disjoint(sc)

C3_Witness ==
    /\ call.op = "refill_unblock_check"
    /\ call.case = "ready"
    /\ sc.scRefillCount = 2
    /\ REFILL_HEAD(sc).rTime + REFILL_HEAD(sc).rAmount < REFILL_TAIL(sc).rTime

(* C4: after every public operation on an SC whose budget is at least    *)
(* MIN_SC_BUDGET, every refill in the queue has amount >= MIN_BUDGET.    *)
C4_MinChunk ==
    (sc_active(sc) /\ sc.scBudget >= MIN_SC_BUDGET) => refill_at_least_min_budget(sc)

C4_Witness ==
    /\ call.op = "refill_budget_check"
    /\ call.usage > 0
    /\ call.usage < MIN_BUDGET
    /\ call.case = "donate"
    /\ sc.scBudget >= MIN_SC_BUDGET
    /\ sc.scRefillCount = 2

(* C5: after every public operation, tail.time + tail.amount - head.time *)
(* is at most the period (budget <= period).                             *)
C5_Window == sc_active(sc) => refill_all_within_period(sc)

C5_Witness ==
    /\ call.op = "refill_budget_check"
    /\ sc.scRefillCount = 2
    /\ sc.scBudget < sc.scPeriod
    /\ REFILL_TAIL(sc).rTime + REFILL_TAIL(sc).rAmount - REFILL_HEAD(sc).rTime = sc.scPeriod

(* C6: at every public-operation boundary 1 <= count <= max_refills and  *)
(* head < max_refills; the queue is empty only inside                    *)
(* refill_budget_check (where schedule_used then refills it).            *)
C6_QueueShape ==
    /\ sc_active(sc) =>
        /\ 1 <= sc.scRefillCount
        /\ sc.scRefillCount <= sc.scRefillMax
        /\ sc.scRefillHead < sc.scRefillMax
    /\ call.used = "empty" => call.op = "refill_budget_check"

C6_Witness ==
    /\ call.op = "refill_budget_check"
    /\ call.used = "empty"
    /\ sc.scRefillCount = 1
    /\ sc.scRefillHead = 1

(* C7: after refill_update(sc, P', B', M') the queue satisfies every     *)
(* invariant under the new parameters: the amounts sum to B', the queue  *)
(* spans at most P', every refill is >= MIN_BUDGET, the refills are      *)
(* ordered and disjoint, and 1 <= count <= M'.                           *)
C7_UpdatePost(new_max_refills, new_budget, new_period) ==
    /\ sc'.scPeriod = new_period
    /\ sc'.scBudget = new_budget
    /\ sc'.scRefillMax = new_max_refills
    /\ refill_sum(sc') = new_budget
    /\ refill_all_within_period(sc')
    /\ refill_at_least_min_budget(sc')
    /\ refill_ordered_disjoint(sc')
    /\ 1 <= sc'.scRefillCount
    /\ sc'.scRefillCount <= new_max_refills
    /\ sc'.scRefillHead = 0

C7_UpdateInvariants ==
    [][\A new_max_refills \in 1 .. MaxRefills, new_budget \in MIN_SC_BUDGET .. MaxBudget,
          new_period \in 1 .. MaxPeriod :
            (/\ call'.op = "refill_update"
             /\ RefillUpdateArgs(new_max_refills, new_budget, new_period))
                => C7_UpdatePost(new_max_refills, new_budget, new_period)]_vars

C7_Witness ==
    /\ call.op = "refill_update"
    /\ call.case = "schedule"
    /\ call.used = "split"
    /\ sc.scRefillCount = 2
    /\ sc.scBudget < sc.scPeriod
    /\ ksCurTime > 0

(* C9: if at entry to refill_budget_check(usage) the head is not ready   *)
(* or head.amount < usage, then at exit the queue holds exactly one      *)
(* refill, of amount budget, at old head.time + period + usage.          *)
C9_Overrun ==
    [][\A usage \in 0 .. MaxUsage :
            (/\ RefillBudgetCheckUsage(usage)
             /\ (~refill_ready(sc, ksCurTime') \/ REFILL_HEAD(sc).rAmount < usage))
                => /\ sc'.scRefillCount = 1
                   /\ REFILL_HEAD(sc') =
                        Refill(REFILL_HEAD(sc).rTime + sc.scPeriod + usage, sc.scBudget)]_vars

C9_Witness ==
    /\ call.op = "refill_budget_check"
    /\ call.case = "overrun"
    /\ call.usage > 0
    /\ sc.scRefillCount = 1
    /\ REFILL_HEAD(sc).rAmount = sc.scBudget
    /\ sc.scRefillHead > 0

(* C10 as stated: refill_budget_check(0) preserves the invariants and    *)
(* leaves the head refill's time and amount unchanged.                   *)
C10_QueueInvariants(s) ==
    /\ ~refill_empty(s)
    /\ refill_ordered_disjoint(s)
    /\ refill_at_least_min_budget(s)
    /\ refill_all_within_period(s)
    /\ refill_sum_to_budget(s)

C10_ZeroUsageNoOp ==
    [][(RefillBudgetCheckUsage(0) /\ C10_QueueInvariants(sc))
            => /\ C10_QueueInvariants(sc')
               /\ REFILL_HEAD(sc') = REFILL_HEAD(sc)]_vars

(* C10 as amended: refill_budget_check(0) preserves the invariants and   *)
(* the sum; it leaves the head refill unchanged when the head is ready   *)
(* at entry and the queue holds at least two refills (schedule_used then *)
(* splits or moves the tail, which is not the head).                     *)
C10_ZeroUsage ==
    [][(RefillBudgetCheckUsage(0) /\ C10_QueueInvariants(sc))
            => /\ C10_QueueInvariants(sc')
               /\ refill_sum(sc') = refill_sum(sc)
               /\ (refill_ready(sc, ksCurTime) /\ sc.scRefillCount >= 2)
                    => /\ REFILL_HEAD(sc') = REFILL_HEAD(sc)
                       /\ sc'.scRefillHead = sc.scRefillHead]_vars

C10_Witness ==
    /\ call.op = "refill_budget_check"
    /\ call.usage = 0
    /\ call.case = "partial"
    /\ call.used = "merge"
    /\ sc.scRefillCount = 2

(* C1 as stated: for an SC created by refill_new (MIN_SC_BUDGET <=       *)
(* budget <= period), over any sequence of refill_unblock_check and      *)
(* refill_budget_check calls in which the thread runs only while the     *)
(* head is ready and is charged at most head.amount, the execution in    *)
(* any window of length period is at most budget.                        *)
C1_BandwidthAnySequence == origin = "new" => BandwidthBound

(* C1 as amended: the same, provided refill_unblock_check is called      *)
(* when the thread starts to run after refill_new and after every        *)
(* interval in which it did not run.                                     *)
C1_Bandwidth == (origin = "new" /\ disciplined) => BandwidthBound

C1_Witness ==
    /\ origin = "new"
    /\ disciplined
    /\ Executed(sc.scPeriod) = sc.scBudget
    /\ WindowHasPause
    /\ hist[HistLen] = 1
    /\ sc.scRefillCount = 2

(* C8 as stated: after refill_update, in every window of length          *)
(* new_period that starts at or after the call, the execution (thread    *)
(* runs only in ready head refills, charged at most head.amount) is at   *)
(* most new_budget.                                                      *)
C8_UpdateBandwidthAnySequence == origin = "updated" => BandwidthBound

(* C8 as amended: the same, provided refill_unblock_check is called      *)
(* when the thread starts to run after the refill_update and after       *)
(* every interval in which it did not run.                               *)
C8_UpdateBandwidth == (origin = "updated" /\ disciplined) => BandwidthBound

C8_Witness ==
    /\ origin = "updated"
    /\ disciplined
    /\ Executed(sc.scPeriod) = sc.scBudget
    /\ WindowHasPause
    /\ hist[HistLen] = 1

(* C11: if the head is ready and usage = head.amount, then               *)
(* refill_budget_check(usage) removes the old head, the refills at exit  *)
(* sum to the budget, and the last refill at exit ends at old head.time  *)
(* + period + usage; from a single refill the queue becomes exactly      *)
(* <<(old head.time + period, usage)>>.                                  *)
C11_ExactConsumption ==
    [][\A usage \in 0 .. MaxUsage :
            (/\ RefillBudgetCheckUsage(usage)
             /\ refill_ready(sc, ksCurTime')
             /\ usage = REFILL_HEAD(sc).rAmount)
                => /\ sc'.scRefillHead = refill_next(sc, sc.scRefillHead)
                   /\ sc.scRefillCount > 1 =>
                        /\ sc'.scRefillCount = sc.scRefillCount
                        /\ \A k \in 1 .. (sc.scRefillCount - 1) :
                               refill_seq(sc')[k] = refill_seq(sc)[k + 1]
                   /\ refill_sum(sc') = sc'.scBudget
                   /\ REFILL_TAIL(sc').rTime + REFILL_TAIL(sc').rAmount
                        = REFILL_HEAD(sc).rTime + sc.scPeriod + usage
                   /\ sc.scRefillCount = 1 =>
                        refill_seq(sc')
                            = <<Refill(REFILL_HEAD(sc).rTime + sc.scPeriod, usage)>>]_vars

C11_Witness ==
    /\ call.op = "refill_budget_check"
    /\ call.case = "exact"
    /\ call.used = "push"
    /\ sc.scRefillCount = 2
    /\ sc.scRefillHead = 1

(* C13: refill_unblock_check on a round-robin SC changes nothing: head,  *)
(* count, every refill, period, budget, max_refills and ksReprogram are  *)
(* as they were.                                                         *)
C13_RoundRobinNoOp ==
    [][(RefillUnblockCheck /\ isRoundRobin(sc))
            => /\ sc' = sc
               /\ ksReprogram' = ksReprogram]_vars

C13_Witness ==
    /\ call.op = "refill_unblock_check"
    /\ call.case = "roundrobin"
    /\ isRoundRobin(sc)
    /\ refill_ready(sc, ksCurTime)
    /\ sc.scRefillCount = 2
    /\ ~ksReprogram

(* C14: refill_new(sc, max_refills, budget, period) at time now sets     *)
(* period, budget and max_refills to the arguments, head = 0, count = 1  *)
(* and slot 0 = (now, budget); refill_ready and refill_sufficient(sc, 0) *)
(* hold right after it.                                                  *)
C14_NewPost ==
    [][\A max_refills \in 1 .. MaxRefills, budget \in (MIN_BUDGET + 1) .. MaxBudget,
          period \in 1 .. MaxPeriod :
            RefillNewArgs(max_refills, budget, period)
                => /\ sc'.scPeriod = period
                   /\ sc'.scBudget = budget
                   /\ sc'.scRefillMax = max_refills
                   /\ sc'.scRefillHead = 0
                   /\ sc'.scRefillCount = 1
                   /\ sc'.refills[0] = Refill(ksCurTime, budget)
                   /\ refill_ready(sc', ksCurTime')
                   /\ refill_sufficient(sc', 0)]_vars

C14_Witness ==
    /\ call.op = "refill_new"
    /\ ksCurTime > 0
    /\ sc.scRefillMax = MaxRefills
    /\ sc.scRefillCount = 1
    /\ sc.refills[0] = Refill(ksCurTime, sc.scBudget)
    /\ sc.scBudget < sc.scPeriod

(* C15 as stated: every refill_new with budget > MIN_BUDGET and          *)
(* max_refills >= 1 ends in a state that passes sched_invariants.        *)
C15_NewInvariants == [][RefillNew => sched_invariants(sc')]_vars

C19_MergePost(s, new) ==
    LET t == refill_tail_index(s)
    IN  /\ sc'.scRefillCount = s.scRefillCount
        /\ sc'.scRefillHead = s.scRefillHead
        /\ refill_tail_index(sc') = t
        /\ sc'.refills[t].rAmount = s.refills[t].rAmount + new.rAmount
        /\ sc'.refills[t].rTime = new.rTime - s.refills[t].rAmount
        /\ sc'.refills[t].rTime + sc'.refills[t].rAmount = new.rTime + new.rAmount
        /\ \A i \in Slots : (Occupied(s, i) /\ i # t) => sc'.refills[i] = s.refills[i]

C19_MergeWhenFull ==
    /\ [][\A usage \in 0 .. MaxUsage :
            LET c == refill_budget_check_charge(sc, usage, ksCurTime')
            IN  (/\ RefillBudgetCheckUsage(usage)
                 /\ ~refill_empty(c.sc)
                 /\ refill_full(c.sc))
                    => C19_MergePost(c.sc, c.used)]_vars
    /\ [][\A new_max_refills \in 1 .. MaxRefills, new_budget \in MIN_SC_BUDGET .. MaxBudget,
            new_period \in 1 .. MaxPeriod :
            LET s2 == refill_update_head(sc, new_period, new_budget, new_max_refills,
                                         ksCurTime)
            IN  (/\ call'.op = "refill_update"
                 /\ RefillUpdateArgs(new_max_refills, new_budget, new_period)
                 /\ REFILL_HEAD(s2).rAmount < new_budget
                 /\ refill_full(s2))
                    => C19_MergePost(s2, refill_update_unused(s2, new_period,
                                                              new_budget))]_vars

C19_Witness ==
    /\ call.op = "refill_budget_check"
    /\ call.case = "partial"
    /\ call.used = "merge"
    /\ call.usage = 1
    /\ sc.scRefillMax = 2
    /\ sc.scRefillCount = 2

(* C12: for a non-round-robin SC whose head is ready at entry, both      *)
(* refill_ready and refill_sufficient(sc, 0) hold at exit of             *)
(* refill_unblock_check, for every queue that satisfies the invariants.  *)
C12_UnblockPost ==
    [][(Q_Unblock /\ ~isRoundRobin(sc) /\ refill_ready(sc, ksCurTime))
            => /\ refill_ready(sc', ksCurTime')
               /\ refill_sufficient(sc', 0)]_vars

C12_Witness ==
    /\ call.op = "refill_unblock_check"
    /\ call.result.case = "ready"
    /\ call.result.count = 2
    /\ sc.scRefillCount = 1
    /\ REFILL_HEAD(sc).rTime = ksCurTime + getKernelWcetTicks
    /\ REFILL_HEAD(sc).rAmount = sc.scBudget

(* C17: refill_capacity(sc, usage) is head.amount - usage when           *)
(* usage <= head.amount and 0 otherwise, never a wrapped difference;     *)
(* refill_sufficient(sc, usage) is true exactly when that value is       *)
(* >= MIN_BUDGET; neither changes the SC.                                *)
C17_Capacity(s, usage) ==
    IF usage <= REFILL_HEAD(s).rAmount THEN REFILL_HEAD(s).rAmount - usage ELSE 0

C17_CapacityQueries ==
    /\ [][\A usage \in 0 .. MaxUsage :
            Q_CapacityUsage(usage)
                => /\ call'.result = C17_Capacity(sc, usage)
                   /\ call'.result <= REFILL_HEAD(sc).rAmount
                   /\ sc' = sc]_vars
    /\ [][\A usage \in 0 .. MaxUsage :
            Q_SufficientUsage(usage)
                => /\ call'.result = (C17_Capacity(sc, usage) >= MIN_BUDGET)
                   /\ sc' = sc]_vars

C17_Witness ==
    /\ call.op = "refill_capacity"
    /\ call.usage > REFILL_HEAD(sc).rAmount
    /\ call.result = 0
    /\ sc.scRefillCount = 2

(* C18: refill_ready(sc) is true exactly when head.time <= now + wcet:   *)
(* a refill at time T is not ready at any now < T - wcet and is ready    *)
(* at every now >= T - wcet.                                             *)
C18_Ready ==
    [][Q_Ready
            => /\ call'.result = (REFILL_HEAD(sc).rTime <= ksCurTime + getKernelWcetTicks)
               /\ ksCurTime < REFILL_HEAD(sc).rTime - getKernelWcetTicks
                    => call'.result = FALSE
               /\ ksCurTime >= REFILL_HEAD(sc).rTime - getKernelWcetTicks
                    => call'.result = TRUE
               /\ sc' = sc]_vars

C18_Witness ==
    /\ call.op = "refill_ready"
    /\ call.result = TRUE
    /\ REFILL_HEAD(sc).rTime = ksCurTime + getKernelWcetTicks
    /\ ksCurTime > 0

(* C20 as stated: refill_size(sc) is the number of empty slots of the    *)
(* refill buffer, max_refills minus the number of refills held.          *)
C20_SizeIsEmptySlots ==
    [][Q_Size => call'.result = sc.scRefillMax - sc.scRefillCount]_vars

(* the head is ready and the usage leaves a remnant of at least          *)
(* MIN_BUDGET in it                                                      *)
C21_ViableRemnant(usage) ==
    /\ refill_ready(sc, ksCurTime')
    /\ 0 < usage
    /\ usage < REFILL_HEAD(sc).rAmount
    /\ REFILL_HEAD(sc).rAmount - usage >= MIN_BUDGET

(* C21 as stated: if the head is ready, 0 < usage < head.amount and      *)
(* remnant = head.amount - usage >= MIN_BUDGET, the head at exit of      *)
(* refill_budget_check(usage) is (old head.time + usage, remnant), for   *)
(* every queue length and every max_refills >= 1.                        *)
C21_PartialAnyLength ==
    [][\A usage \in 0 .. MaxUsage :
            (RefillBudgetCheckUsage(usage) /\ C21_ViableRemnant(usage))
                => REFILL_HEAD(sc') = Refill(REFILL_HEAD(sc).rTime + usage,
                                             REFILL_HEAD(sc).rAmount - usage)]_vars

(* C21 as amended: the same when the queue holds at least two refills    *)
(* at entry, or holds one and schedule_used pushes the used time.  With  *)
(* one refill the head is also the tail: a split leaves the head         *)
(* (old head.time + usage, remnant - (MIN_BUDGET - usage)) and a merge   *)
(* leaves the single refill (old head.time + period - remnant,           *)
(* old head.amount).                                                     *)
C21_Partial ==
    [][\A usage \in 0 .. MaxUsage :
            (RefillBudgetCheckUsage(usage) /\ C21_ViableRemnant(usage))
                => LET t == REFILL_HEAD(sc).rTime
                       a == REFILL_HEAD(sc).rAmount
                       remnant == a - usage
                   IN  /\ sc'.scRefillHead = sc.scRefillHead
                       /\ (sc.scRefillCount >= 2 \/ call'.used = "push")
                            => REFILL_HEAD(sc') = Refill(t + usage, remnant)
                       /\ (sc.scRefillCount = 1 /\ call'.used = "split")
                            => REFILL_HEAD(sc')
                                 = Refill(t + usage, remnant - (MIN_BUDGET - usage))
                       /\ (sc.scRefillCount = 1 /\ call'.used = "merge")
                            => /\ sc'.scRefillCount = 1
                               /\ REFILL_HEAD(sc')
                                    = Refill(t + sc.scPeriod - remnant, a)]_vars

C21_Witness ==
    /\ call.op = "refill_budget_check"
    /\ call.case = "partial"
    /\ call.usage = MIN_BUDGET
    /\ call.used = "push"
    /\ sc.scRefillCount = 2
    /\ sc.scRefillMax = 2
    /\ REFILL_HEAD(sc).rTime = call.usage

(* C22: if the head is ready and 0 < remnant = head.amount - usage       *)
(* < MIN_BUDGET, refill_budget_check(usage) removes the old head and     *)
(* keeps its remnant: when other refills remain, the head at exit is     *)
(* the old second refill with its time moved earlier by remnant; from a  *)
(* single refill the queue at exit is exactly                            *)
(* <<(old head.time + period - remnant, usage + remnant)>>.              *)
C22_Donation ==
    [][\A usage \in 0 .. MaxUsage :
            (/\ RefillBudgetCheckUsage(usage)
             /\ refill_ready(sc, ksCurTime')
             /\ usage < REFILL_HEAD(sc).rAmount
             /\ REFILL_HEAD(sc).rAmount - usage < MIN_BUDGET)
                => LET remnant == REFILL_HEAD(sc).rAmount - usage
                       second == REFILL_INDEX(sc, refill_next(sc, sc.scRefillHead))
                   IN  /\ sc'.scRefillHead = refill_next(sc, sc.scRefillHead)
                       /\ refill_sum(sc') = refill_sum(sc)
                       /\ sc.scRefillCount > 1 =>
                            /\ REFILL_HEAD(sc').rTime = second.rTime - remnant
                            /\ sc.scRefillCount > 2 =>
                                 REFILL_HEAD(sc').rAmount = second.rAmount + remnant
                            /\ call'.used = "push" =>
                                 REFILL_HEAD(sc').rAmount = second.rAmount + remnant
                            /\ (sc.scRefillCount = 2 /\ call'.used = "split") =>
                                 REFILL_HEAD(sc').rAmount
                                    = second.rAmount + remnant - (MIN_BUDGET - usage)
                            /\ sc.scRefillCount = 2 => call'.used # "merge"
                       /\ sc.scRefillCount = 1 =>
                            refill_seq(sc')
                                = <<Refill(REFILL_HEAD(sc).rTime + sc.scPeriod - remnant,
                                           usage + remnant)>>]_vars

C22_Witness ==
    /\ call.op = "refill_budget_check"
    /\ call.case = "donate"
    /\ call.used = "split"
    /\ sc.scRefillCount = 2
    /\ sc.scRefillHead = 1
    /\ REFILL_HEAD(sc).rTime < ksCurTime

(* the execution a queue permits up to time tau: each refill supplies    *)
(* one tick per tick from its time on, up to its amount                  *)
RECURSIVE C23_Supply(_, _)
C23_Supply(q, tau) ==
    IF q = <<>> THEN 0
    ELSE LET r == Head(q)
             d == IF tau > r.rTime THEN tau - r.rTime ELSE 0
         IN  (IF d < r.rAmount THEN d ELSE r.rAmount) + C23_Supply(Tail(q), tau)

(* the queue at entry with the usage taken off the head, and the usage   *)
(* eligible again one period after the head's time                       *)
C23_Entitled(s, usage) ==
    <<Refill(REFILL_HEAD(s).rTime + usage, REFILL_HEAD(s).rAmount - usage)>>
        \o Tail(refill_seq(s))
        \o <<Refill(REFILL_HEAD(s).rTime + s.scPeriod, usage)>>

C23_Horizon == MaxRefillTime + MaxPeriod + MaxUsage

C24_SplitCondition(s, new) ==
    /\ ~refill_empty(s)
    /\ new.rAmount < MIN_BUDGET
    /\ ~refill_full(s)
    /\ REFILL_TAIL(s).rAmount + new.rAmount >= 2 * MIN_BUDGET

C24_SplitPost(s, new) ==
    LET t == refill_tail_index(s)
        remainder == MIN_BUDGET - new.rAmount
    IN  /\ sc'.scRefillCount = s.scRefillCount + 1
        /\ sc'.scRefillHead = s.scRefillHead
        /\ refill_tail_index(sc') = refill_next(s, t)
        /\ REFILL_TAIL(sc') = Refill(new.rTime - remainder, MIN_BUDGET)
        /\ sc'.refills[t] = Refill(s.refills[t].rTime, s.refills[t].rAmount - remainder)
        /\ sc'.refills[t].rAmount >= MIN_BUDGET
        /\ sc'.refills[t].rTime + sc'.refills[t].rAmount <= REFILL_TAIL(sc').rTime
        /\ \A i \in Slots : (Occupied(s, i) /\ i # t) => sc'.refills[i] = s.refills[i]

C24_SplitPreferred ==
    /\ [][\A usage \in 0 .. MaxUsage :
            LET c == refill_budget_check_charge(sc, usage, ksCurTime')
            IN  (RefillBudgetCheckUsage(usage) /\ C24_SplitCondition(c.sc, c.used))
                    => C24_SplitPost(c.sc, c.used)]_vars
    /\ [][\A new_max_refills \in 1 .. MaxRefills, new_budget \in MIN_SC_BUDGET .. MaxBudget,
            new_period \in 1 .. MaxPeriod :
            LET s2 == refill_update_head(sc, new_period, new_budget, new_max_refills,
                                         ksCurTime)
                new == refill_update_unused(s2, new_period, new_budget)
            IN  (/\ call'.op = "refill_update"
                 /\ RefillUpdateArgs(new_max_refills, new_budget, new_period)
                 /\ REFILL_HEAD(s2).rAmount < new_budget
                 /\ C24_SplitCondition(s2, new))
                    => C24_SplitPost(s2, new)]_vars

C24_Witness ==
    /\ call.op = "refill_budget_check"
    /\ call.case = "partial"
    /\ call.used = "split"
    /\ call.usage = 1
    /\ sc.scRefillCount = 2
    /\ REFILL_TAIL(sc).rAmount = MIN_BUDGET
    /\ REFILL_HEAD(sc).rTime + REFILL_HEAD(sc).rAmount < REFILL_TAIL(sc).rTime

(* C25: in each of the four cases of schedule_used (push on the empty    *)
(* queue, split, merge, push) the sum of the amounts after the call is   *)
(* the sum before it plus new.amount, and count changes by 0 (merge) or  *)
(* by +1 (the others) and does not exceed max_refills.                   *)
C25_ConservePost(s, new) ==
    /\ refill_sum(sc') = refill_sum(s) + new.rAmount
    /\ sc'.scRefillCount =
         s.scRefillCount + (IF schedule_used_case(s, new) = "merge" THEN 0 ELSE 1)
    /\ sc'.scRefillCount <= sc'.scRefillMax
    /\ sc'.scRefillMax = s.scRefillMax
    /\ schedule_used_case(s, new) \in {"empty", "split", "merge", "push"}

C25_Conserves ==
    /\ [][\A usage \in 0 .. MaxUsage :
            LET c == refill_budget_check_charge(sc, usage, ksCurTime')
            IN  RefillBudgetCheckUsage(usage) => C25_ConservePost(c.sc, c.used)]_vars
    /\ [][\A new_max_refills \in 1 .. MaxRefills, new_budget \in MIN_SC_BUDGET .. MaxBudget,
            new_period \in 1 .. MaxPeriod :
            LET s2 == refill_update_head(sc, new_period, new_budget, new_max_refills,
                                         ksCurTime)
            IN  (/\ call'.op = "refill_update"
                 /\ RefillUpdateArgs(new_max_refills, new_budget, new_period)
                 /\ REFILL_HEAD(s2).rAmount < new_budget)
                    => C25_ConservePost(s2, refill_update_unused(s2, new_period,
                                                                 new_budget))]_vars

C25_Witness ==
    /\ call.op = "refill_budget_check"
    /\ call.case = "overrun"
    /\ call.used = "empty"
    /\ call.usage = 0
    /\ sc.scRefillCount = 1
    /\ sc.scRefillMax = MaxRefills

(* C27: refill_unblock_check on a non-round-robin SC whose head is not   *)
(* ready changes nothing: every refill, head, count, period, budget,     *)
(* max_refills and ksReprogram keep their values; ksReprogram becomes    *)
(* true only when the head was ready at entry.                           *)
C27_NotReadyNoOp ==
    /\ [][(RefillUnblockCheck /\ ~isRoundRobin(sc) /\ ~refill_ready(sc, ksCurTime))
            => /\ sc' = sc
               /\ ksReprogram' = ksReprogram]_vars
    /\ [][(RefillUnblockCheck /\ ksReprogram' # ksReprogram)
            => /\ ksReprogram'
               /\ ~isRoundRobin(sc)
               /\ refill_ready(sc, ksCurTime)]_vars

C27_Witness ==
    /\ call.op = "refill_unblock_check"
    /\ call.case = "notready"
    /\ ~ksReprogram
    /\ sc.scRefillCount = 2
    /\ REFILL_HEAD(sc).rTime = ksCurTime + getKernelWcetTicks + 1

(* C28 as stated: when the surviving head is ready, the head's time      *)
(* after step 3 of refill_update is now and is never earlier than the    *)
(* head's time before the call.                                          *)
C28_SlideForwardOnly ==
    [][\A new_max_refills \in 1 .. MaxRefills, new_budget \in MIN_SC_BUDGET .. MaxBudget,
          new_period \in 1 .. MaxPeriod :
            LET s2 == refill_update_head(sc, new_period, new_budget, new_max_refills,
                                         ksCurTime)
            IN  (/\ call'.op = "refill_update"
                 /\ RefillUpdateArgs(new_max_refills, new_budget, new_period)
                 /\ refill_ready(sc, ksCurTime))
                    => /\ REFILL_HEAD(s2).rTime = ksCurTime
                       /\ REFILL_HEAD(s2).rTime >= REFILL_HEAD(sc).rTime]_vars

(* C28 as amended: when the surviving head is ready, its time after      *)
(* step 3 is now: never earlier than before when the old time was at     *)
(* most now, and earlier by at most wcet when the old time was in        *)
(* (now, now + wcet]; a head that is not ready keeps its time.           *)
C28_SlideToNow ==
    [][\A new_max_refills \in 1 .. MaxRefills, new_budget \in MIN_SC_BUDGET .. MaxBudget,
          new_period \in 1 .. MaxPeriod :
            LET s2 == refill_update_head(sc, new_period, new_budget, new_max_refills,
                                         ksCurTime)
            IN  (/\ call'.op = "refill_update"
                 /\ RefillUpdateArgs(new_max_refills, new_budget, new_period))
                    => /\ refill_ready(sc, ksCurTime) =>
                            /\ REFILL_HEAD(s2).rTime = ksCurTime
                            /\ REFILL_HEAD(sc).rTime <= ksCurTime
                                 => REFILL_HEAD(s2).rTime >= REFILL_HEAD(sc).rTime
                            /\ REFILL_HEAD(sc).rTime > ksCurTime
                                 => REFILL_HEAD(sc).rTime - REFILL_HEAD(s2).rTime
                                        <= getKernelWcetTicks
                            /\ call'.used \in {"none", "split", "push"}
                                 => REFILL_HEAD(sc').rTime = ksCurTime
                       /\ ~refill_ready(sc, ksCurTime) =>
                            REFILL_HEAD(s2).rTime = REFILL_HEAD(sc).rTime
                       /\ REFILL_HEAD(s2).rAmount = REFILL_HEAD(sc).rAmount]_vars

C28_Witness ==
    /\ call.op = "refill_update"
    /\ call.case = "schedule"
    /\ call.used = "push"
    /\ ksCurTime >= 2
    /\ REFILL_HEAD(sc).rTime = ksCurTime
    /\ sc.scRefillCount = 2

(* C29: if the old head's amount is >= new_budget, the queue after       *)
(* refill_update is exactly one refill of amount new_budget, at time     *)
(* now if the head was ready and at its old time otherwise.              *)
C29_Truncation ==
    [][\A new_max_refills \in 1 .. MaxRefills, new_budget \in MIN_SC_BUDGET .. MaxBudget,
          new_period \in 1 .. MaxPeriod :
            (/\ call'.op = "refill_update"
             /\ RefillUpdateArgs(new_max_refills, new_budget, new_period)
             /\ REFILL_HEAD(sc).rAmount >= new_budget)
                => /\ sc'.scRefillHead = 0
                   /\ refill_seq(sc') =
                        <<Refill(IF refill_ready(sc, ksCurTime) THEN ksCurTime
                                 ELSE REFILL_HEAD(sc).rTime,
                                 new_budget)>>]_vars

C29_Witness ==
    /\ call.op = "refill_update"
    /\ call.case = "truncate"
    /\ sc.scRefillCount = 1
    /\ REFILL_HEAD(sc).rTime > ksCurTime + getKernelWcetTicks
    /\ REFILL_HEAD(sc).rAmount = MIN_SC_BUDGET
    /\ sc.scRefillMax = MaxRefills

(* C30: if the old head's amount is < new_budget, then after             *)
(* refill_update the head index is 0, every occupied slot index is       *)
(* < new_max_refills, count is 2 when new_max_refills >= 2 and 1 when    *)
(* new_max_refills = 1, and the last refill ends exactly at              *)
(* h + new_period, h being the head's time after the step-3 slide.       *)
C30_Rescheduling ==
    [][\A new_max_refills \in 1 .. MaxRefills, new_budget \in MIN_SC_BUDGET .. MaxBudget,
          new_period \in 1 .. MaxPeriod :
            LET s2 == refill_update_head(sc, new_period, new_budget, new_max_refills,
                                         ksCurTime)
                h == REFILL_HEAD(s2).rTime
            IN  (/\ call'.op = "refill_update"
                 /\ RefillUpdateArgs(new_max_refills, new_budget, new_period)
                 /\ REFILL_HEAD(sc).rAmount < new_budget)
                    => /\ sc'.scRefillHead = 0
                       /\ sc'.scRefillCount = (IF new_max_refills >= 2 THEN 2 ELSE 1)
                       /\ \A i \in Slots :
                            (sc'.refills[i] # NoRefill)
                                <=> (i < sc'.scRefillCount /\ i < new_max_refills)
                       /\ h = (IF refill_ready(sc, ksCurTime) THEN ksCurTime
                               ELSE REFILL_HEAD(sc).rTime)
                       /\ REFILL_TAIL(sc').rTime + REFILL_TAIL(sc').rAmount
                            = h + new_period]_vars

C30_Witness ==
    /\ call.op = "refill_update"
    /\ call.case = "schedule"
    /\ call.used = "merge"
    /\ sc.scRefillMax = 1
    /\ sc.scRefillCount = 1
    /\ REFILL_HEAD(sc).rTime + REFILL_HEAD(sc).rAmount > ksCurTime + sc.scPeriod

(* the sum of the amounts of the first n refills of the queue *)
RECURSIVE C26_SumFirst(_, _)
C26_SumFirst(q, n) == IF n = 0 THEN 0 ELSE q[n].rAmount + C26_SumFirst(q, n - 1)

(* C26: when the head is ready at entry, refill_unblock_check leaves     *)
(* head.time = now + wcet and head.amount = the sum of the amounts of    *)
(* the refills it merged, and either count = 1 or the second refill      *)
(* starts strictly after head.time + head.amount; the refills it did     *)
(* not merge are unchanged.                                              *)
C26_Coalescing ==
    [][(Q_Unblock /\ ~isRoundRobin(sc) /\ refill_ready(sc, ksCurTime))
            => LET merged == sc.scRefillCount - sc'.scRefillCount + 1
                   before == refill_seq(sc)
                   after == refill_seq(sc')
               IN  /\ merged >= 1
                   /\ sc'.scRefillCount >= 1
                   /\ after[1].rTime = ksCurTime + getKernelWcetTicks
                   /\ after[1].rAmount = C26_SumFirst(before, merged)
                   /\ \/ sc'.scRefillCount = 1
                      \/ after[2].rTime > after[1].rTime + after[1].rAmount
                   /\ \A k \in 2 .. sc'.scRefillCount :
                        after[k] = before[k + merged - 1]
                   /\ \A k \in 2 .. merged :
                        before[k].rTime
                            <= ksCurTime + getKernelWcetTicks + C26_SumFirst(before, k - 1)
                   /\ ksReprogram']_vars

C26_Witness ==
    /\ call.op = "refill_unblock_check"
    /\ call.result.case = "ready"
    /\ call.result.count = MaxRefills
    /\ sc.scRefillCount = 1
    /\ sc.scRefillHead = 1
    /\ REFILL_HEAD(sc) = Refill(ksCurTime + getKernelWcetTicks, MaxRefills * MIN_BUDGET)

(* the assertion of schedule_used on a non-empty queue *)
C31_Disjoint(s, new) ==
    refill_empty(s) \/ new.rTime >= REFILL_TAIL(s).rTime + REFILL_TAIL(s).rAmount

(* C31: on every call of schedule_used made by refill_budget_check and   *)
(* refill_update from a state that satisfies the invariants (budget <=   *)
(* period), when the queue is not empty the refill to schedule has       *)
(* new.time >= tail.time + tail.amount.                                  *)
C31_DisjointAssertion ==
    /\ [][\A usage \in 0 .. MaxUsage :
            LET c == refill_budget_check_charge(sc, usage, ksCurTime')
            IN  RefillBudgetCheckUsage(usage) => C31_Disjoint(c.sc, c.used)]_vars
    /\ [][\A new_max_refills \in 1 .. MaxRefills, new_budget \in MIN_SC_BUDGET .. MaxBudget,
            new_period \in 1 .. MaxPeriod :
            LET s2 == refill_update_head(sc, new_period, new_budget, new_max_refills,
                                         ksCurTime)
            IN  (/\ call'.op = "refill_update"
                 /\ RefillUpdateArgs(new_max_refills, new_budget, new_period)
                 /\ REFILL_HEAD(s2).rAmount < new_budget)
                    => /\ ~refill_empty(s2)
                       /\ C31_Disjoint(s2, refill_update_unused(s2, new_period,
                                                                new_budget))]_vars

C31_Witness ==
    /\ call.op = "refill_update"
    /\ call.case = "schedule"
    /\ call.used = "push"
    /\ sc.scPeriod = sc.scBudget
    /\ sc.scRefillCount = 2
    /\ REFILL_HEAD(sc).rTime + REFILL_HEAD(sc).rAmount = REFILL_TAIL(sc).rTime

(* C32: whenever schedule_used is reached with an empty queue (overrun,  *)
(* exact consumption of the only refill, or a remnant below MIN_BUDGET   *)
(* of the only refill, in refill_budget_check) the refill it is given    *)
(* has amount >= MIN_BUDGET, and the queue is not empty at exit.         *)
C32_EmptyAssertion ==
    /\ [][\A usage \in 0 .. MaxUsage :
            LET c == refill_budget_check_charge(sc, usage, ksCurTime')
            IN  (RefillBudgetCheckUsage(usage) /\ refill_empty(c.sc))
                    => /\ c.used.rAmount >= MIN_BUDGET
                       /\ \/ call'.case = "overrun"
                          \/ call'.case \in {"exact", "donate"} /\ sc.scRefillCount = 1
                       /\ sc'.scRefillCount = 1
                       /\ REFILL_HEAD(sc') = c.used]_vars
    /\ [][\A new_max_refills \in 1 .. MaxRefills, new_budget \in MIN_SC_BUDGET .. MaxBudget,
            new_period \in 1 .. MaxPeriod :
            (/\ call'.op = "refill_update"
             /\ RefillUpdateArgs(new_max_refills, new_budget, new_period))
                => ~refill_empty(refill_update_head(sc, new_period, new_budget,
                                                    new_max_refills, ksCurTime))]_vars

C32_Witness ==
    /\ call.op = "refill_budget_check"
    /\ call.case = "donate"
    /\ call.used = "empty"
    /\ sc.scRefillCount = 1
    /\ REFILL_HEAD(sc).rAmount = call.usage + 1

(* C33 as stated: every slot access made through refill_index inside     *)
(* refill_new, refill_update, refill_budget_check and                    *)
(* refill_unblock_check meets refill_index's asserted preconditions at   *)
(* the moment of the access (queue not empty, index < max_refills,       *)
(* index_valid), refill_update's copy of the head into slot 0 included.  *)
C33_AccessesValid ==
    /\ [][\A max_refills \in 1 .. MaxRefills, budget \in (MIN_BUDGET + 1) .. MaxBudget,
            period \in 1 .. MaxPeriod :
            RefillNewArgs(max_refills, budget, period)
                => AccessesValid(refill_new_accesses(sc, max_refills, budget,
                                                     period))]_vars
    /\ [][\A usage \in 0 .. MaxUsage :
            RefillBudgetCheckUsage(usage)
                => AccessesValid(refill_budget_check_accesses(sc, usage,
                                                              ksCurTime'))]_vars
    /\ [][RefillUnblockCheck
            => AccessesValid(refill_unblock_check_accesses(sc, ksCurTime))]_vars
    /\ [][\A new_max_refills \in 1 .. MaxRefills, new_budget \in MIN_SC_BUDGET .. MaxBudget,
            new_period \in 1 .. MaxPeriod :
            (/\ call'.op = "refill_update"
             /\ RefillUpdateArgs(new_max_refills, new_budget, new_period))
                => AccessesValid(refill_update_accesses(sc, new_period, new_budget,
                                                        new_max_refills,
                                                        ksCurTime))]_vars

(* the accesses of refill_update other than its write of slot 0, and    *)
(* the accesses of the other three operations, meet the preconditions   *)
C33_AccessesButSlotZero ==
    /\ [][\A max_refills \in 1 .. MaxRefills, budget \in (MIN_BUDGET + 1) .. MaxBudget,
            period \in 1 .. MaxPeriod :
            RefillNewArgs(max_refills, budget, period)
                => AccessesValid(refill_new_accesses(sc, max_refills, budget,
                                                     period))]_vars
    /\ [][\A usage \in 0 .. MaxUsage :
            RefillBudgetCheckUsage(usage)
                => AccessesValid(refill_budget_check_accesses(sc, usage,
                                                              ksCurTime'))]_vars
    /\ [][RefillUnblockCheck
            => AccessesValid(refill_unblock_check_accesses(sc, ksCurTime))]_vars
    /\ [][\A new_max_refills \in 1 .. MaxRefills, new_budget \in MIN_SC_BUDGET .. MaxBudget,
            new_period \in 1 .. MaxPeriod :
            (/\ call'.op = "refill_update"
             /\ RefillUpdateArgs(new_max_refills, new_budget, new_period))
                => LET a == refill_update_accesses(sc, new_period, new_budget,
                                                   new_max_refills, ksCurTime)
                   IN  /\ a[2] = Access(sc, 0)
                       /\ \A k \in 1 .. Len(a) :
                            k # 2 => refill_index_asserts(a[k].s, a[k].index)
                       /\ refill_index_asserts(a[2].s, a[2].index)
                            <=> index_valid(sc, 0)]_vars

(* C34 as stated: index_valid(sc, i) is true exactly for the indices of  *)
(* the occupied arc head, head + 1, ..., head + count - 1 modulo         *)
(* max_refills and false for every other index below max_refills, for    *)
(* every head < max_refills and every count from 0 to max_refills.       *)
C34_IndexValidExact ==
    [][\A index \in Slots :
        B_IndexValidAt(index) => (call'.result <=> Occupied(sc, index))]_vars

(* index_valid accepts every occupied slot, and the only free slot it    *)
(* accepts is head + count of an arc that does not wrap                   *)
C34_IndexValidOver ==
    [][\A index \in Slots :
        B_IndexValidAt(index)
            => /\ Occupied(sc, index) => call'.result
               /\ call'.result /\ ~Occupied(sc, index)
                    => index = sc.scRefillHead + sc.scRefillCount]_vars

(* a free slot that index_valid accepts *)
C34_Witness ==
    /\ call.op = "index_valid"
    /\ call.result = TRUE
    /\ ~Occupied(sc, call.usage)
    /\ sc.scRefillCount >= 1

(* C35: the slots read from the head for count steps with wrap-around    *)
(* form a sequence on which refill_pop_head removes and returns the      *)
(* first element (head advances by one modulo max_refills, count drops   *)
(* by one), refill_add_tail appends at the end (the written slot is the  *)
(* one after the tail index, count grows by one) and leaves the other    *)
(* elements as they were, and refill_tail_index is                       *)
(* (head + count - 1) mod max_refills.                                   *)
C35_FifoRefinement ==
    /\ [][B_PopHead
            => /\ call'.result = Head(refill_seq(sc))
               /\ refill_seq(sc') = Tail(refill_seq(sc))
               /\ sc'.scRefillHead = (sc.scRefillHead + 1) % sc.scRefillMax
               /\ sc'.scRefillCount = sc.scRefillCount - 1]_vars
    /\ [][\A refill \in BufRefills :
            B_AddTailRefill(refill)
                => LET written == refill_next(sc, (sc.scRefillHead + sc.scRefillCount - 1)
                                                     % sc.scRefillMax)
                   IN  /\ refill_seq(sc') = Append(refill_seq(sc), refill)
                       /\ sc'.scRefillHead = sc.scRefillHead
                       /\ sc'.scRefillCount = sc.scRefillCount + 1
                       /\ ~Occupied(sc, written)
                       /\ sc'.refills[written] = refill
                       /\ \A i \in Slots :
                            i # written => sc'.refills[i] = sc.refills[i]]_vars
    /\ [][B_TailIndex
            => call'.result = (sc.scRefillHead + sc.scRefillCount - 1)
                                  % sc.scRefillMax]_vars

(* an append that wraps around the end of the buffer and fills it *)
C35_Witness ==
    /\ call.op = "refill_add_tail"
    /\ sc.scRefillMax = MaxRefills
    /\ sc.scRefillCount = sc.scRefillMax
    /\ sc.scRefillHead > 0
    /\ REFILL_TAIL(sc) = call.result
    /\ refill_tail_index(sc) < sc.scRefillHead

(* C36: across every refill_budget_check and every refill_unblock_check  *)
(* the head refill's time at exit is at or after the head refill's time   *)
(* at entry.                                                             *)
C36_HeadNeverEarlier ==
    [][(RefillBudgetCheck \/ RefillUnblockCheck)
        => REFILL_HEAD(sc').rTime >= REFILL_HEAD(sc).rTime]_vars

(* an unblock that finds the head ready after time has passed *)
C36_Witness ==
    /\ call.op = "refill_unblock_check"
    /\ call.case = "ready"
    /\ ksCurTime > 0
    /\ REFILL_HEAD(sc).rTime = ksCurTime + getKernelWcetTicks

(* C37: refill_budget_check and refill_unblock_check leave the SC's      *)
(* period, budget and max_refills as they were; a step that changes one  *)
(* of them is a refill_new or a refill_update.                           *)
C37_ParametersFrame ==
    /\ [][(RefillBudgetCheck \/ RefillUnblockCheck)
            => /\ sc'.scPeriod = sc.scPeriod
               /\ sc'.scBudget = sc.scBudget
               /\ sc'.scRefillMax = sc.scRefillMax]_vars
    /\ [][(\/ sc'.scPeriod # sc.scPeriod
           \/ sc'.scBudget # sc.scBudget
           \/ sc'.scRefillMax # sc.scRefillMax)
            => call'.op \in {"refill_new", "refill_update"}]_vars

(* an overrun, which rebuilds the whole queue, under unchanged parameters *)
C37_Witness ==
    /\ call.op = "refill_budget_check"
    /\ call.case = "overrun"
    /\ sc.scRefillCount = 1
    /\ sc.scBudget < sc.scPeriod
    /\ REFILL_HEAD(sc).rAmount = sc.scBudget

(* C38: refill_unblock_check terminates: each iteration of its merge     *)
(* loop removes one refill, the loop makes at most count - 1 iterations  *)
(* for the count at entry (itself at most max_refills), at least one     *)
(* refill is left, and the function reaches its end, where the queue is  *)
(* the one refill_unblock_check computes from the queue at entry.        *)
C38_Terminates ==
    /\ [](/\ call.entry.scRefillCount <= call.entry.scRefillMax
          /\ call.iters <= call.entry.scRefillCount - 1
          /\ sc.scRefillCount = call.entry.scRefillCount - call.iters
          /\ sc.scRefillCount >= 1)
    /\ [](call.pc = "done"
            => /\ sc = Live(refill_unblock_check(call.entry, ksCurTime))
               /\ ksReprogram = refill_unblock_reprogram(call.entry, ksCurTime, FALSE))
    /\ <>(call.pc = "done")

(* the loop ran count - 1 times and left one refill *)
C38_Witness ==
    /\ call.op = "refill_unblock_check"
    /\ call.pc = "done"
    /\ call.entry.scRefillCount = 3
    /\ call.iters = 2
    /\ sc.scRefillCount = 1

(* the subtractions of schedule_used, in the integers: none is negative  *)
(* and the refill written is the one the integers give                   *)
C39_ScheduleUsed(s, new) ==
    IF schedule_used_case(s, new) = "split"
    THEN LET remainder == MIN_BUDGET - new.rAmount
         IN  /\ remainder >= 0
             /\ new.rTime - remainder >= 0
             /\ REFILL_TAIL(s).rAmount - remainder >= 0
             /\ REFILL_TAIL(schedule_used(s, new)) =
                    Refill(new.rTime - remainder, new.rAmount + remainder)
    ELSE IF schedule_used_case(s, new) = "merge"
    THEN /\ new.rTime - REFILL_TAIL(s).rAmount >= 0
         /\ REFILL_TAIL(schedule_used(s, new)).rTime = new.rTime - REFILL_TAIL(s).rAmount
    ELSE TRUE

(* the subtractions of refill_budget_check *)
C39_BudgetCheck(s, usage, now) ==
    LET c == refill_budget_check_charge(s, usage, now)
        case == budget_check_case(s, usage, now)
        remnant == REFILL_HEAD(s).rAmount - usage
        s1 == refill_pop_head(s)
    IN  /\ case \in {"partial", "donate"} => remnant >= 0
        /\ case = "donate" /\ refill_empty(s1)
            => /\ REFILL_HEAD(s).rTime + s.scPeriod - remnant >= 0
               /\ c.used.rTime = REFILL_HEAD(s).rTime + s.scPeriod - remnant
        /\ case = "donate" /\ ~refill_empty(s1)
            => /\ REFILL_HEAD(s1).rTime - remnant >= 0
               /\ REFILL_HEAD(c.sc).rTime = REFILL_HEAD(s1).rTime - remnant
        /\ C39_ScheduleUsed(c.sc, c.used)

(* the subtractions of refill_update *)
C39_Update(s, new_period, new_budget, new_max_refills, now) ==
    LET s2 == refill_update_head(s, new_period, new_budget, new_max_refills, now)
        unused == new_budget - REFILL_HEAD(s2).rAmount
        new == refill_update_unused(s2, new_period, new_budget)
    IN  REFILL_HEAD(s2).rAmount < new_budget
            => /\ unused >= 0
               /\ REFILL_HEAD(s2).rTime + new_period - unused >= 0
               /\ new = Refill(REFILL_HEAD(s2).rTime + new_period - unused, unused)
               /\ C39_ScheduleUsed(s2, new)

(* C39: from every state that satisfies the invariants, for every usage  *)
(* and every new budget <= new period, the subtractions on tick values   *)
(* in schedule_used (new.time - remainder, new.time - tail.amount),      *)
(* refill_budget_check (head.time - remnant, used.time - remnant) and    *)
(* refill_update (head.time + new_period - unused, new_budget -          *)
(* head.amount) have a non-negative result in the integers, which is the *)
(* value the unsigned arithmetic stores.                                 *)
C39_NoWrapBelowZero ==
    sc_active(sc) /\ sched_invariants(sc)
        => /\ ~isRoundRobin(sc)
                => \A usage \in 0 .. MaxUsage :
                        C39_BudgetCheck(sc, usage, ksCurTime + usage)
           /\ \A new_max_refills \in 1 .. MaxRefills,
                 new_budget \in MIN_SC_BUDGET .. MaxBudget,
                 new_period \in 1 .. MaxPeriod :
                    new_budget <= new_period
                        => C39_Update(sc, new_period, new_budget, new_max_refills,
                                      ksCurTime)

(* a donation has taken the remnant off the time of the following refill *)
C39_Witness ==
    /\ call.op = "refill_budget_check"
    /\ call.case = "donate"
    /\ call.used # "empty"
    /\ call.usage >= 1
    /\ sc.scRefillCount >= 2
    /\ sched_invariants(sc)

====
